---- MODULE Spec2Model ----
(***************************************************************************)
(* A model of lib/ansible/plugins/netconf/__init__.py: the NetconfBase     *)
(* client, its ensure_connected guard, the fourteen guarded operations and *)
(* get_device_operations.                                                  *)
(*                                                                         *)
(* One caller uses the client at a time, so a guarded call (the guard and  *)
(* the wrapped method) is one action.  The connection object and the       *)
(* ncclient manager are collaborators: what they answer is chosen by the   *)
(* environment (connect succeeds or raises, the peer replies or rejects).  *)
(***************************************************************************)
EXTENDS Integers, Sequences, FiniteSets, TLC

\* Bounds of the model.
MaxCaps == 2

\* Python's None, and a present value, as a sequence of length 0 or 1.
None == <<>>

Some(x) == <<x>>

VARIABLES
    _connected,          \* connection._connected
    _manager,            \* connection._manager: the connection's current transport handle
    open,                \* the transport handles whose session is established and not closed
    m,                   \* self.m: the handle the client read at construction
    call,                \* the most recent guarded call, None before the first
    was_connected,       \* connection._connected when that call was entered
    trace,               \* what that call invoked on its collaborators, in order
    connect_error,       \* the exception _connect() raised in that call, None if none
    requests,            \* the requests that call handed to the manager, in order
    sent_connected,      \* per request, connection._connected when it was handed over
    answers,             \* per request, what the manager returned or raised
    result,              \* how that call ended: a return value or a raised exception
    cycle_connects,      \* _connect() invocations since the session was last disconnected
    held,                \* the datastores this client locked on its session and has not unlocked
    confirming,          \* a confirmed commit of this session awaits its confirming commit
    severed,             \* a transport session of the connection has been severed
    call_severed,        \* severed, when the most recent call was entered
    server_caps,         \* the capability sequence handed to get_device_operations
    profiles             \* the results of the last two get_device_operations calls

vars == <<_connected, _manager, open, m, call, was_connected, trace, connect_error,
          requests, sent_connected, answers, result, cycle_connects, held,
          confirming, severed, call_severed, server_caps, profiles>>

session_vars == <<_connected, _manager, open, m>>

\* What the device holds for the client's session and what became of the
\* transport: the client keeps none of it. SpecDevice follows these, Spec and
\* SpecOps leave them as they start.
device_vars == <<held, confirming, severed, call_severed>>

call_vars == <<call, was_connected, trace, connect_error, requests, sent_connected,
               answers, result, cycle_connects>>

----------------------------------------------------------------------------
(* XML documents, as sequences of tags, and the two conversions the client *)
(* uses: parsing a string into an element, serialising an element.         *)

OpenTag(t) == [k |-> "open", tag |-> t]

CloseTag(t) == [k |-> "close", tag |-> t]

EmptyTag(t) == [k |-> "empty", tag |-> t]

\* "<not-xml": a tag that is never terminated.
JunkTag(t) == [k |-> "junk", tag |-> t]

XmlStrings ==
    { <<EmptyTag("clear-arp-table")>>,
      <<OpenTag("get-interface"), EmptyTag("name"), CloseTag("get-interface")>>,
      <<JunkTag("not-xml")>>,
      <<OpenTag("get-interface"), CloseTag("name")>> }

\* The tags still open after reading doc[1..n]; <<"#bad">> once the text is
\* not well formed (a stray close tag, an unterminated tag, text after the root).
RECURSIVE OpenAfter(_, _)
OpenAfter(doc, n) ==
    IF n = 0 THEN <<>>
    ELSE LET before == OpenAfter(doc, n - 1)
             t == doc[n]
         IN  IF before = <<"#bad">> THEN before
             ELSE IF n > 1 /\ before = <<>> THEN <<"#bad">>
             ELSE IF t.k = "open" THEN Append(before, t.tag)
             ELSE IF t.k = "empty" THEN before
             ELSE IF t.k = "close" /\ before # <<>> /\ before[Len(before)] = t.tag
                  THEN SubSeq(before, 1, Len(before) - 1)
             ELSE <<"#bad">>

WellFormed(doc) == Len(doc) > 0 /\ OpenAfter(doc, Len(doc)) = <<>>

\* lxml.etree.fromstring / ncclient.xml_.to_ele: the root element of a well
\* formed document, an XMLSyntaxError otherwise.
fromstring(text) ==
    IF WellFormed(text)
    THEN [ok |-> TRUE,
          ele |-> Some([tag |-> text[1].tag,
                        children |-> IF Len(text) > 2
                                     THEN SubSeq(text, 2, Len(text) - 1)
                                     ELSE <<>>])]
    ELSE [ok |-> FALSE, ele |-> None]

to_ele(x) == fromstring(x)

\* The error element of an rpc-reply that carries an rpc-error.
ErrorElements ==
    { [tag |-> "rpc-error", error_tag |-> e] :
        e \in {"lock-denied", "operation-not-supported"} }

\* ncclient.xml_.to_xml: the XML declaration followed by the serialised element.
to_xml(ele) ==
    << "<?xml version=\"1.0\" encoding=\"UTF-8\"?>",
       OpenTag(ele.tag), OpenTag("error-tag"), [k |-> "text", tag |-> ele.error_tag],
       CloseTag("error-tag"), CloseTag(ele.tag) >>

----------------------------------------------------------------------------
(* The collaborators: the connection's _connect() and the ncclient manager *)
(* behind a transport handle.                                              *)

Handles == 0 .. 3

\* Handle 0 is what the connection holds before any session is established.
NoSession == 0

ConnectOutcomes ==
    { [ok |-> TRUE, err |-> None] } \cup
    { [ok |-> FALSE, err |-> Some(e)] : e \in {"timeout", "auth-failed"} }

\* A reply object: some carry data_xml, every one carries xml.
Replies ==
    { [has_data_xml |-> TRUE, data_xml |-> "<data/>",
       xml |-> "<rpc-reply><data/></rpc-reply>"],
      [has_data_xml |-> FALSE, data_xml |-> "",
       xml |-> "<rpc-reply><ok/></rpc-reply>"] }

\* What the peer does with a request: it replies, or it rejects with an rpc-error.
PeerAnswers ==
    { [ok |-> TRUE, resp |-> Some(r), xml |-> None] : r \in Replies } \cup
    { [ok |-> FALSE, resp |-> None, xml |-> Some(e)] : e \in ErrorElements }

Return(v) == [returned |-> Some(v), raised |-> None]

Raise(type, value) == [returned |-> None, raised |-> Some([type |-> type, value |-> value])]

\* A handle the session never used: its id names no session the client or the
\* connection still refers to.
fresh_handle == CHOOSE h \in Handles \ {NoSession} : h \notin {m, _manager}

\* connection._connect(): it establishes a session, stores its handle and sets
\* the flag, or it raises the transport's error and changes nothing.
_connect(outcome) ==
    IF outcome.ok
    THEN [raised |-> None, connected |-> TRUE, manager |-> fresh_handle,
          open |-> open \cup {fresh_handle}]
    ELSE [raised |-> Some([type |-> "ConnectionError", value |-> outcome.err[1]]),
          connected |-> _connected, manager |-> _manager, open |-> open]

\* A method of the manager behind handle h, called with a request: the peer's
\* answer on an established session, a transport error on any other handle.
manager_call(h, live, peer) ==
    IF h \in live
    THEN IF peer.ok
         THEN [resp |-> peer.resp, raised |-> None]
         ELSE [resp |-> None,
               raised |-> Some([type |-> "RPCError", value |-> peer.xml[1]])]
    ELSE [resp |-> None, raised |-> Some([type |-> "TransportError", value |-> h])]

----------------------------------------------------------------------------
(* The methods of NetconfBase.  Each takes the handle self.m, the sessions *)
(* established when it runs, its arguments and the peer's answer, and      *)
(* gives the requests it handed to the manager and how it ended.           *)

\* resp.data_xml if hasattr(resp, 'data_xml') else resp.xml
data_of(resp) == IF resp.has_data_xml THEN resp.data_xml ELSE resp.xml

\* Mutant: a request the manager raised on is sent a second time.
forward_retry(self_m, live, method, params, peer) ==
    LET r == manager_call(self_m, live, peer)
        req == [method |-> method, params |-> params, handle |-> self_m]
    IN  [requests |-> IF r.raised = None THEN <<req>> ELSE <<req, req>>,
         answers |-> IF r.raised = None THEN <<r>> ELSE <<r, r>>,
         result |-> IF r.raised = None
                    THEN Return(data_of(r.resp[1]))
                    ELSE [returned |-> None, raised |-> r.raised]]

\* Mutant: the request goes over the handle the connection holds, read anew
\* for the call.
forward_current(self_m, live, method, params, peer) ==
    LET r == manager_call(_manager, live, peer)
    IN  [requests |-> <<[method |-> method, params |-> params, handle |-> _manager]>>,
         answers |-> <<r>>,
         result |-> IF r.raised = None
                    THEN Return(data_of(r.resp[1]))
                    ELSE [returned |-> None, raised |-> r.raised]]

\* resp = self.m.<method>(...); return its data; an exception of the manager
\* propagates.
forward(self_m, live, method, params, peer) ==
    LET r == manager_call(self_m, live, peer)
    IN  [requests |-> <<[method |-> method, params |-> params, handle |-> self_m]>>,
         answers |-> <<r>>,
         result |-> IF r.raised = None
                    THEN Return(data_of(r.resp[1]))
                    ELSE [returned |-> None, raised |-> r.raised]]

\* Mutant: the handler raises a fixed message and drops the payload.
rpc_except_generic(exc) ==
    IF exc.type = "RPCError"
    THEN [type |-> "Exception", value |-> <<"rpc failed">>]
    ELSE exc

\* except RPCError as exc: raise Exception(to_xml(exc.xml))
rpc_except(exc) ==
    IF exc.type = "RPCError"
    THEN [type |-> "Exception", value |-> to_xml(exc.value)]
    ELSE exc

rpc(self_m, live, args, peer) ==
    LET obj == to_ele(args.name)
    IN  IF ~obj.ok
        THEN [requests |-> <<>>, answers |-> <<>>,
              result |-> Raise("XMLSyntaxError", args.name)]
        ELSE LET f == forward(self_m, live, "rpc", [obj |-> obj.ele[1]], peer)
             IN  [requests |-> f.requests,
                  answers |-> f.answers,
                  result |-> IF f.result.raised = None
                             THEN f.result
                             ELSE [returned |-> None,
                                   raised |-> Some(rpc_except(f.result.raised[1]))]]

\* Mutant: the conversion to a tuple reverses the elements.
normalize_filter_reversed(filter) ==
    IF filter # None /\ filter[1].type = "list"
    THEN Some([type |-> "tuple",
               items |-> [i \in 1 .. Len(filter[1].items) |->
                              filter[1].items[Len(filter[1].items) + 1 - i]]])
    ELSE filter

\* if isinstance(filter, list): filter = tuple(filter)
normalize_filter(filter) ==
    IF filter # None /\ filter[1].type = "list"
    THEN Some([type |-> "tuple", items |-> filter[1].items])
    ELSE filter

get_config(self_m, live, args, peer) ==
    LET filter == normalize_filter(args.filter)
        source == IF args.source = None \/ args.source = Some("")
                  THEN Some("running") ELSE args.source
    IN  forward(self_m, live, "get_config", [source |-> source, filter |-> filter], peer)

get(self_m, live, args, peer) ==
    forward(self_m, live, "get",
            [filter |-> normalize_filter(args.filter),
             with_defaults |-> args.with_defaults], peer)

edit_config(self_m, live, args, peer) ==
    forward(self_m, live, "edit_config",
            [config |-> args.config, format |-> args.format, target |-> args.target,
             default_operation |-> args.default_operation,
             test_option |-> args.test_option, error_option |-> args.error_option],
            peer)

validate(self_m, live, args, peer) ==
    forward(self_m, live, "validate", [source |-> args.source], peer)

copy_config(self_m, live, args, peer) ==
    forward(self_m, live, "copy_config",
            [source |-> args.source, target |-> args.target], peer)

\* Mutant: the command is forwarded as given, without being parsed.
dispatch_unparsed(self_m, live, args, peer) ==
    forward(self_m, live, "dispatch",
            [req |-> args.rpc_command, source |-> args.source,
             filter |-> args.filter], peer)

dispatch(self_m, live, args, peer) ==
    LET req == fromstring(args.rpc_command)
    IN  IF ~req.ok
        THEN [requests |-> <<>>, answers |-> <<>>,
              result |-> Raise("XMLSyntaxError", args.rpc_command)]
        ELSE forward(self_m, live, "dispatch",
                     [req |-> req.ele[1], source |-> args.source,
                      filter |-> args.filter], peer)

\* Mutant: the client keeps a lock table and answers a lock on a datastore it
\* already holds without sending it.
lock_tabled(self_m, live, args, peer) ==
    IF args.target \in held
    THEN [requests |-> <<>>, answers |-> <<>>, result |-> Return("<ok/>")]
    ELSE forward(self_m, live, "lock", [target |-> args.target], peer)

lock(self_m, live, args, peer) ==
    forward(self_m, live, "lock", [target |-> args.target], peer)

unlock(self_m, live, args, peer) ==
    forward(self_m, live, "unlock", [target |-> args.target], peer)

discard_changes(self_m, live, args, peer) ==
    forward(self_m, live, "discard_changes", <<>>, peer)

\* Mutant: the client remembers an outstanding confirmed commit and sends the
\* next commit as confirmed too.
commit_sticky(self_m, live, args, peer) ==
    forward(self_m, live, "commit",
            [confirmed |-> args.confirmed \/ confirming, timeout |-> args.timeout,
             persist |-> args.persist], peer)

commit(self_m, live, args, peer) ==
    forward(self_m, live, "commit",
            [confirmed |-> args.confirmed, timeout |-> args.timeout,
             persist |-> args.persist], peer)

get_schema(self_m, live, args, peer) ==
    forward(self_m, live, "get_schema",
            [identifier |-> args.identifier, version |-> args.version,
             format |-> args.format], peer)

delete_config(self_m, live, args, peer) ==
    forward(self_m, live, "delete_config", [target |-> args.target], peer)

locked(self_m, live, args, peer) ==
    forward(self_m, live, "locked", args, peer)

\* def put_file(self, source, destination): pass
put_file(source, destination) == Return(None)

\* def fetch_file(self, source, destination): pass
fetch_file(source, destination) == Return(None)

\* func(self, *args, **kwargs), for the method a guarded call names.
func(c, self_m, live, peer) ==
    CASE c.op = "rpc" -> rpc(self_m, live, c.args, peer)
      [] c.op = "get_config" -> get_config(self_m, live, c.args, peer)
      [] c.op = "get" -> get(self_m, live, c.args, peer)
      [] c.op = "edit_config" -> edit_config(self_m, live, c.args, peer)
      [] c.op = "validate" -> validate(self_m, live, c.args, peer)
      [] c.op = "copy_config" -> copy_config(self_m, live, c.args, peer)
      [] c.op = "dispatch" -> dispatch(self_m, live, c.args, peer)
      [] c.op = "lock" -> lock(self_m, live, c.args, peer)
      [] c.op = "unlock" -> unlock(self_m, live, c.args, peer)
      [] c.op = "discard_changes" -> discard_changes(self_m, live, c.args, peer)
      [] c.op = "commit" -> commit(self_m, live, c.args, peer)
      [] c.op = "get_schema" -> get_schema(self_m, live, c.args, peer)
      [] c.op = "delete_config" -> delete_config(self_m, live, c.args, peer)
      [] c.op = "locked" -> locked(self_m, live, c.args, peer)

----------------------------------------------------------------------------
(* get_device_operations.  A capability string is a sequence of characters, *)
(* so that "in" is the substring test the code performs.                   *)

\* The fragments the code looks for (lines 342 to 348).
\* ":candidate"
frag_candidate ==
    <<":", "c", "a", "n", "d", "i", "d", "a", "t", "e">>

\* ":with-defaults"
frag_with_defaults ==
    <<":", "w", "i", "t", "h", "-", "d", "e", "f", "a", "u", "l", "t", "s">>

\* ":confirmed-commit"
frag_confirmed_commit ==
    <<":", "c", "o", "n", "f", "i", "r", "m", "e", "d", "-", "c", "o", "m",
      "m", "i", "t">>

\* ":startup"
frag_startup ==
    <<":", "s", "t", "a", "r", "t", "u", "p">>

\* ":xpath"
frag_xpath ==
    <<":", "x", "p", "a", "t", "h">>

\* ":writable-running"
frag_writable_running ==
    <<":", "w", "r", "i", "t", "a", "b", "l", "e", "-", "r", "u", "n", "n",
      "i", "n", "g">>

\* ":writable-validate"
frag_writable_validate ==
    <<":", "w", "r", "i", "t", "a", "b", "l", "e", "-", "v", "a", "l", "i",
      "d", "a", "t", "e">>

\* Capability strings a server may advertise besides the bare fragments.
\* ":base:1.0"
cap_base_1_0 ==
    <<":", "b", "a", "s", "e", ":", "1", ".", "0">>

\* ":base:1.1"
cap_base_1_1 ==
    <<":", "b", "a", "s", "e", ":", "1", ".", "1">>

\* "urn:ietf:params:netconf:capability:candidate:1.0"
cap_candidate_uri ==
    <<"u", "r", "n", ":", "i", "e", "t", "f", ":", "p", "a", "r", "a", "m",
      "s", ":", "n", "e", "t", "c", "o", "n", "f", ":", "c", "a", "p", "a",
      "b", "i", "l", "i", "t", "y", ":", "c", "a", "n", "d", "i", "d", "a",
      "t", "e", ":", "1", ".", "0">>

\* ":validate:1.1"
cap_validate ==
    <<":", "v", "a", "l", "i", "d", "a", "t", "e", ":", "1", ".", "1">>

\* ":start"
cap_start ==
    <<":", "s", "t", "a", "r", "t">>

\* "up:1.0"
cap_up ==
    <<"u", "p", ":", "1", ".", "0">>

\* ":writable-"
cap_writable ==
    <<":", "w", "r", "i", "t", "a", "b", "l", "e", "-">>

\* "running"
cap_running ==
    <<"r", "u", "n", "n", "i", "n", "g">>

Fragments ==
    { frag_candidate, frag_with_defaults, frag_confirmed_commit, frag_startup,
      frag_xpath, frag_writable_running, frag_writable_validate }

CapStrings ==
    Fragments \cup
    { cap_base_1_0, cap_base_1_1, cap_candidate_uri, cap_validate, cap_start,
      cap_up, cap_writable, cap_running }

\* Scenario A and scenario B of the specification.
ScenarioA ==
    <<cap_base_1_1, frag_candidate, frag_confirmed_commit, frag_startup,
      frag_writable_running>>

ScenarioB == <<cap_base_1_0>>

\* Every capability sequence of at most MaxCaps strings, and the two scenarios.
CapInputs ==
    UNION { [1 .. n -> CapStrings] : n \in 0 .. MaxCaps } \cup {ScenarioA, ScenarioB}

\* The capability sequences of the sessions of the client model.
SessionCaps == {ScenarioA, ScenarioB}

\* sep.join(strings)
RECURSIVE join(_, _)
join(sep, strings) ==
    IF Len(strings) = 0 THEN <<>>
    ELSE IF Len(strings) = 1 THEN strings[1]
    ELSE strings[1] \o sep \o join(sep, Tail(strings))

\* fragment in buffer: Python's substring test
contains(buffer, fragment) ==
    \E i \in 1 .. (Len(buffer) - Len(fragment) + 1) :
        SubSeq(buffer, i, i + Len(fragment) - 1) = fragment

\* Mutant: the capability strings are concatenated with no separator.
capabilities_buffer_nosep(server_capabilities) == join(<<>>, server_capabilities)

\* capabilities = '\n'.join(server_capabilities)
capabilities_buffer(server_capabilities) == join(<<"\n">>, server_capabilities)

\* Mutant: 'candidate' is appended before 'running'.
lock_datastore_reordered(operations) ==
    LET l0 == <<>>
        l1 == IF operations.supports_commit THEN Append(l0, "candidate") ELSE l0
        l2 == IF operations.supports_writable_running THEN Append(l1, "running") ELSE l1
        l3 == IF operations.supports_startup THEN Append(l2, "startup") ELSE l2
    IN  l3

\* The three conditional appends to operations['lock_datastore'].
lock_datastore(operations) ==
    LET l0 == <<>>
        l1 == IF operations.supports_writable_running THEN Append(l0, "running") ELSE l0
        l2 == IF operations.supports_commit THEN Append(l1, "candidate") ELSE l1
        l3 == IF operations.supports_startup THEN Append(l2, "startup") ELSE l2
    IN  l3

\* Mutant: one lockable datastore is not enough.
supports_lock_two(datastores) == IF Len(datastores) > 1 THEN TRUE ELSE FALSE

\* True if len(operations['lock_datastore']) else False
supports_lock(datastores) == IF Len(datastores) # 0 THEN TRUE ELSE FALSE

profile_of(server_capabilities) ==
    LET capabilities == capabilities_buffer(server_capabilities)
        flags ==
            [supports_commit |-> contains(capabilities, frag_candidate),
             supports_defaults |-> contains(capabilities, frag_with_defaults),
             supports_confirm_commit |-> contains(capabilities, frag_confirmed_commit),
             supports_startup |-> contains(capabilities, frag_startup),
             supports_xpath |-> contains(capabilities, frag_xpath),
             supports_writable_running |-> contains(capabilities, frag_writable_running),
             supports_validate |-> contains(capabilities, frag_writable_validate)]
        datastores == lock_datastore(flags)
    IN  [supports_commit |-> flags.supports_commit,
         supports_defaults |-> flags.supports_defaults,
         supports_confirm_commit |-> flags.supports_confirm_commit,
         supports_startup |-> flags.supports_startup,
         supports_xpath |-> flags.supports_xpath,
         supports_writable_running |-> flags.supports_writable_running,
         supports_validate |-> flags.supports_validate,
         lock_datastore |-> datastores,
         supports_lock |-> supports_lock(datastores)]

\* Mutant: the profile is computed from the capabilities of the live session,
\* which a disconnected session does not have, instead of from the argument.
get_device_operations_of_session(server_capabilities) ==
    IF _connected THEN profile_of(server_capabilities) ELSE profile_of(<<>>)

\* def get_device_operations(self, server_capabilities)
get_device_operations(server_capabilities) == profile_of(server_capabilities)

----------------------------------------------------------------------------
(* The guard and the actions.                                              *)

\* Mutant: the guard never finds the session disconnected.
not_connected_never == FALSE

\* Mutant: the guard reconnects on every call.
not_connected_always == TRUE

\* if not self._connection._connected
not_connected == ~_connected

\* The guard's part of wrapped(): _connect() is invoked when the flag is
\* false, and the session it leaves behind.
guard(outcome) ==
    IF not_connected
    THEN [connects |-> <<"connect">>, after |-> _connect(outcome)]
    ELSE [connects |-> <<>>,
          after |-> [raised |-> None, connected |-> _connected,
                     manager |-> _manager, open |-> open]]

\* Mutant: the guard swallows _connect()'s exception and calls the method.
guarded_func_swallow(g, c, peer) == func(c, m, g.after.open, peer)

\* Mutant: the wrapper consults the operation profile and refuses an operation
\* the capabilities do not advertise, without sending it.
guarded_func_checked(g, c, peer) ==
    LET operations == get_device_operations(server_caps)
        unsupported ==
            \/ c.op = "commit" /\ ~operations.supports_commit
            \/ c.op = "get" /\ c.args.with_defaults # None /\ ~operations.supports_defaults
            \/ c.op = "lock" /\ \A i \in DOMAIN operations.lock_datastore :
                                     operations.lock_datastore[i] # c.args.target
    IN  IF g.after.raised # None
        THEN [requests |-> <<>>, answers |-> <<>>,
              result |-> [returned |-> None, raised |-> g.after.raised]]
        ELSE IF unsupported
        THEN [requests |-> <<>>, answers |-> <<>>,
              result |-> Raise("ValueError", c.op)]
        ELSE func(c, m, g.after.open, peer)

\* Mutant: the method sends over the connection's current handle, the one
\* the guard's connect left behind.
guarded_func_current(g, c, peer) ==
    IF g.after.raised = None
    THEN func(c, g.after.manager, g.after.open, peer)
    ELSE [requests |-> <<>>, answers |-> <<>>,
          result |-> [returned |-> None, raised |-> g.after.raised]]

\* return func(self, *args, **kwargs), reached only when the guard raised nothing.
guarded_func(g, c, peer) ==
    IF g.after.raised = None
    THEN func(c, m, g.after.open, peer)
    ELSE [requests |-> <<>>, answers |-> <<>>,
          result |-> [returned |-> None, raised |-> g.after.raised]]

\* The datastores the device holds locked for the client once a call ended:
\* a lock that returned adds its target, an unlock that returned removes it.
held_after(c, outcome) ==
    IF c.op = "lock" /\ outcome.returned # None THEN held \cup {c.args.target}
    ELSE IF c.op = "unlock" /\ outcome.returned # None THEN held \ {c.args.target}
    ELSE held

\* Whether a confirmed commit is outstanding once a call ended: a commit that
\* returned starts one when confirmed, and finalises it otherwise.
confirming_after(c, outcome) ==
    IF c.op = "commit" /\ outcome.returned # None THEN c.args.confirmed
    ELSE confirming

\* Mutant: a call that fails marks the connection as disconnected.
connected_after_reset(g, f) == g.after.connected /\ f.result.raised = None

\* The connected flag once wrapped() returned or raised: the method body and
\* the except clause of rpc() never touch the connection.
connected_after(g, f) == g.after.connected

\* wrapped(self, *args, **kwargs): the guard, then the method c.op with the
\* arguments c.args.
wrapped(c, outcome, peer) ==
    LET g == guard(outcome)
        f == guarded_func(g, c, peer)
    IN  /\ _connected' = connected_after(g, f)
        /\ _manager' = g.after.manager
        /\ open' = g.after.open
        /\ m' = m
        /\ call' = Some(c)
        /\ was_connected' = _connected
        /\ trace' = g.connects \o [i \in 1 .. Len(f.requests) |-> "send"]
        /\ connect_error' = g.after.raised
        /\ requests' = f.requests
        /\ sent_connected' = [i \in 1 .. Len(f.requests) |-> g.after.connected]
        /\ answers' = f.answers
        /\ result' = f.result
        /\ cycle_connects' = IF g.after.connected
                             THEN cycle_connects + Len(g.connects)
                             ELSE 0

\* One guarded call.
ensure_connected(c, outcome, peer) ==
    /\ wrapped(c, outcome, peer)
    /\ UNCHANGED device_vars
    /\ UNCHANGED <<server_caps, profiles>>

\* What the environment can choose for a call: _connect()'s outcome counts
\* only when the guard invokes it, the peer's answer only when the client's
\* handle names an established session (a new session's handle is never m).
ConnectChoices ==
    IF not_connected THEN ConnectOutcomes ELSE {[ok |-> TRUE, err |-> None]}

PeerChoices ==
    IF m \in open THEN PeerAnswers ELSE {CHOOSE p \in PeerAnswers : p.ok}

Datastores == {"running", "candidate", "startup"}

Filters ==
    { None,
      Some([type |-> "list", items |-> <<"<interfaces/>", "<system/>">>]),
      Some([type |-> "tuple", items |-> <<"subtree", "<interfaces/>">>]) }

Rpc ==
    \E name \in XmlStrings, o \in ConnectChoices, p \in PeerChoices :
        ensure_connected([op |-> "rpc", args |-> [name |-> name]], o, p)

GetConfig ==
    \E source \in {None, Some(""), Some("candidate")}, filter \in Filters,
       o \in ConnectChoices, p \in PeerChoices :
        ensure_connected([op |-> "get_config",
                          args |-> [source |-> source, filter |-> filter]], o, p)

Get ==
    \E filter \in Filters, with_defaults \in {None, Some("report-all")},
       o \in ConnectChoices, p \in PeerChoices :
        ensure_connected([op |-> "get",
                          args |-> [filter |-> filter,
                                    with_defaults |-> with_defaults]], o, p)

EditConfig ==
    \E target \in {"candidate"}, error_option \in {None, Some("rollback-on-error")},
       o \in ConnectChoices, p \in PeerChoices :
        ensure_connected([op |-> "edit_config",
                          args |-> [config |-> "<config/>", format |-> "xml",
                                    target |-> target, default_operation |-> None,
                                    test_option |-> None,
                                    error_option |-> error_option]], o, p)

Validate ==
    \E o \in ConnectChoices, p \in PeerChoices :
        ensure_connected([op |-> "validate", args |-> [source |-> "candidate"]], o, p)

CopyConfig ==
    \E o \in ConnectChoices, p \in PeerChoices :
        ensure_connected([op |-> "copy_config",
                          args |-> [source |-> "running", target |-> "startup"]], o, p)

Dispatch ==
    \E rpc_command \in XmlStrings, o \in ConnectChoices, p \in PeerChoices :
        ensure_connected([op |-> "dispatch",
                          args |-> [rpc_command |-> rpc_command, source |-> None,
                                    filter |-> None]], o, p)

Lock ==
    \E target \in Datastores, o \in ConnectChoices, p \in PeerChoices :
        ensure_connected([op |-> "lock", args |-> [target |-> target]], o, p)

Unlock ==
    \E target \in Datastores, o \in ConnectChoices, p \in PeerChoices :
        ensure_connected([op |-> "unlock", args |-> [target |-> target]], o, p)

DiscardChanges ==
    \E o \in ConnectChoices, p \in PeerChoices :
        ensure_connected([op |-> "discard_changes", args |-> <<>>], o, p)

Commit ==
    \E confirmed \in BOOLEAN, timeout \in {None, Some(120)},
       persist \in {None, Some("tok1")},
       o \in ConnectChoices, p \in PeerChoices :
        ensure_connected([op |-> "commit",
                          args |-> [confirmed |-> confirmed, timeout |-> timeout,
                                    persist |-> persist]], o, p)

GetSchema ==
    \E format \in {None}, o \in ConnectChoices, p \in PeerChoices :
        ensure_connected([op |-> "get_schema",
                          args |-> [identifier |-> "ietf-interfaces",
                                    version |-> None, format |-> format]], o, p)

DeleteConfig ==
    \E o \in ConnectChoices, p \in PeerChoices :
        ensure_connected([op |-> "delete_config", args |-> [target |-> "startup"]], o, p)

Locked ==
    \E o \in ConnectChoices, p \in PeerChoices :
        ensure_connected([op |-> "locked", args |-> [target |-> "candidate"]], o, p)

\* A call of a method that carries no decorator: nothing runs but its body.
undecorated(c, outcome) ==
    /\ call' = Some(c)
    /\ was_connected' = _connected
    /\ trace' = <<>>
    /\ connect_error' = None
    /\ requests' = <<>>
    /\ sent_connected' = <<>>
    /\ answers' = <<>>
    /\ result' = outcome
    /\ UNCHANGED <<cycle_connects, server_caps, profiles>>
    /\ UNCHANGED session_vars
    /\ UNCHANGED device_vars

PutFile ==
    undecorated([op |-> "put_file",
                 args |-> [source |-> "/tmp/config.xml",
                           destination |-> "/var/tmp/config.xml"]],
                put_file("/tmp/config.xml", "/var/tmp/config.xml"))

FetchFile ==
    undecorated([op |-> "fetch_file",
                 args |-> [source |-> "/var/tmp/config.xml",
                           destination |-> "/tmp/config.xml"]],
                fetch_file("/var/tmp/config.xml", "/tmp/config.xml"))

\* Mutant: get_device_operations is decorated with ensure_connected like the
\* operations, so the guard connects a session that is not connected.
GetDeviceOperationsGuarded ==
    \E o \in ConnectChoices :
        LET g == guard(o)
        IN  /\ profiles' =
                   LET all == Append(profiles,
                                     [connected |-> _connected,
                                      operations |-> get_device_operations(server_caps)])
                   IN  IF Len(all) > 2 THEN Tail(all) ELSE all
            /\ server_caps' = server_caps
            /\ _connected' = g.after.connected
            /\ _manager' = g.after.manager
            /\ open' = g.after.open
            /\ m' = m
            /\ UNCHANGED call_vars
            /\ UNCHANGED device_vars

\* get_device_operations(server_capabilities): not guarded; the last two
\* results are kept, each with the connected flag it was computed under.
GetDeviceOperations ==
    /\ profiles' =
           LET all == Append(profiles,
                             [connected |-> _connected,
                              operations |-> get_device_operations(server_caps)])
           IN  IF Len(all) > 2 THEN Tail(all) ELSE all
    /\ server_caps' = server_caps
    /\ UNCHANGED session_vars
    /\ UNCHANGED call_vars
    /\ UNCHANGED device_vars

\* The connection is closed from outside the client: the flag is cleared and
\* the session behind the connection's handle ends.
Close ==
    /\ _connected
    /\ _connected' = FALSE
    /\ open' = open \ {_manager}
    /\ cycle_connects' = 0
    /\ UNCHANGED device_vars
    /\ UNCHANGED <<_manager, m, call, was_connected, trace, connect_error, requests,
                   sent_connected, answers, result, server_caps, profiles>>

\* NetconfBase(connection): the client reads the connection's handle, on a
\* connection that is established or not yet.
construct(established, caps) ==
    /\ _connected = established
    /\ _manager = IF established THEN 1 ELSE NoSession
    /\ open = IF established THEN {1} ELSE {}
    /\ m = _manager
    /\ call = None
    /\ was_connected = _connected
    /\ trace = <<>>
    /\ connect_error = None
    /\ requests = <<>>
    /\ sent_connected = <<>>
    /\ answers = <<>>
    /\ result = [returned |-> None, raised |-> None]
    /\ cycle_connects = IF established THEN 1 ELSE 0
    /\ held = {}
    /\ confirming = FALSE
    /\ severed = FALSE
    /\ call_severed = FALSE
    /\ server_caps = caps
    /\ profiles = <<>>

Init == \E established \in BOOLEAN, caps \in SessionCaps : construct(established, caps)

Next ==
    \/ Rpc
    \/ GetConfig
    \/ Get
    \/ EditConfig
    \/ Validate
    \/ CopyConfig
    \/ Dispatch
    \/ Lock
    \/ Unlock
    \/ DiscardChanges
    \/ Commit
    \/ GetSchema
    \/ DeleteConfig
    \/ Locked
    \/ PutFile
    \/ FetchFile
    \/ GetDeviceOperations
    \/ Close

Spec == Init /\ [][Next]_vars

\* get_device_operations alone, over every bounded capability sequence.
InitOps == \E established \in BOOLEAN, caps \in CapInputs : construct(established, caps)

NextOps == GetDeviceOperations

SpecOps == InitOps /\ [][NextOps]_vars

\* The client together with what the device and the transport do for its
\* session: every guarded call, a close of the connection and a transport
\* failure, with the device's locks and pending confirmed commit followed.
Calls ==
    { [op |-> "rpc", args |-> [name |-> name]] : name \in XmlStrings } \cup
    { [op |-> "get_config", args |-> [source |-> source, filter |-> filter]] :
        source \in {None, Some("candidate")}, filter \in Filters } \cup
    { [op |-> "get", args |-> [filter |-> filter, with_defaults |-> with_defaults]] :
        filter \in Filters, with_defaults \in {None, Some("report-all")} } \cup
    { [op |-> "edit_config",
       args |-> [config |-> "<config/>", format |-> "xml", target |-> "candidate",
                 default_operation |-> None, test_option |-> None,
                 error_option |-> None]],
      [op |-> "validate", args |-> [source |-> "candidate"]],
      [op |-> "copy_config", args |-> [source |-> "running", target |-> "startup"]],
      [op |-> "discard_changes", args |-> <<>>],
      [op |-> "get_schema",
       args |-> [identifier |-> "ietf-interfaces", version |-> None, format |-> None]],
      [op |-> "delete_config", args |-> [target |-> "startup"]],
      [op |-> "locked", args |-> [target |-> "candidate"]] } \cup
    { [op |-> "dispatch",
       args |-> [rpc_command |-> rpc_command, source |-> None, filter |-> None]] :
        rpc_command \in XmlStrings } \cup
    { [op |-> op, args |-> [target |-> target]] :
        op \in {"lock", "unlock"}, target \in Datastores } \cup
    { [op |-> "commit",
       args |-> [confirmed |-> confirmed, timeout |-> timeout, persist |-> persist]] :
        confirmed \in BOOLEAN, timeout \in {None, Some(120)},
        persist \in {None, Some("tok1")} }

\* One guarded call, and what the device holds for the session once it ended.
Operation ==
    \E c \in Calls, o \in ConnectChoices, p \in PeerChoices :
        /\ wrapped(c, o, p)
        /\ held' = held_after(c, result')
        /\ confirming' = confirming_after(c, result')
        /\ severed' = severed
        /\ call_severed' = severed
        /\ UNCHANGED <<server_caps, profiles>>

\* The session behind the connection's handle ends, and with it what the
\* device held for it; the connection clears its flag when it notices.
sever(noticed) ==
    /\ open' = open \ {_manager}
    /\ _connected' = IF noticed THEN FALSE ELSE _connected
    /\ cycle_connects' = IF noticed THEN 0 ELSE cycle_connects
    /\ held' = {}
    /\ confirming' = FALSE
    /\ severed' = TRUE
    /\ UNCHANGED <<_manager, m, call, was_connected, trace, connect_error, requests,
                   sent_connected, answers, result, call_severed, server_caps,
                   profiles>>

\* The caller closes the connection.
CloseSession == _connected /\ sever(TRUE)

\* The transport fails under an established session; nothing tells the
\* connection, whose flag stays set.
Drop == _connected /\ _manager \in open /\ sever(FALSE)

NextDevice ==
    \/ Operation
    \/ CloseSession
    \/ Drop

SpecDevice == Init /\ [][NextDevice]_vars

----------------------------------------------------------------------------
(* The claims.                                                             *)

Count(seq, x) == Cardinality({i \in DOMAIN seq : seq[i] = x})

RaisedType(type) == result.raised # None /\ result.raised[1].type = type

\* The most recent call is dispatch() with a command that does not parse.
MalformedDispatch ==
    /\ call # None
    /\ call[1].op = "dispatch"
    /\ ~WellFormed(call[1].args.rpc_command)

\* The error element the peer rejected the most recent request with, if it did.
Rejected ==
    /\ answers # <<>>
    /\ answers[1].raised # None
    /\ answers[1].raised[1].type = "RPCError"

\* C1: a call entered with the connected flag false invokes _connect() before
\* it hands any request to the manager, and every request is handed over
\* while the connection's connected flag is true.
C1_ConnectBeforeSend ==
    /\ \A i \in DOMAIN trace :
           (trace[i] = "send" /\ ~was_connected) =>
               \E j \in 1 .. (i - 1) : trace[j] = "connect"
    /\ \A i \in DOMAIN sent_connected : sent_connected[i]

C1_Witness ==
    /\ call # None
    /\ ~was_connected
    /\ trace = <<"connect", "send">>
    /\ sent_connected = <<TRUE>>

\* C2: a call on a connected session never invokes _connect(), a call invokes
\* it at most once, and it is invoked at most once since the session was last
\* disconnected.
C2_GuardIdempotent ==
    /\ (call # None /\ was_connected) => Count(trace, "connect") = 0
    /\ Count(trace, "connect") <= 1
    /\ cycle_connects <= 1

C2_Witness ==
    /\ call # None
    /\ was_connected
    /\ _manager # m
    /\ cycle_connects = 1
    /\ trace = <<"send">>

\* C3: a call hands at most one request to the manager, whether it fails or
\* not, and get_config() on a session that is not connected invokes
\* _connect() once and then sends once, in that order.
C3_OneRequestPerCall ==
    /\ Len(requests) <= 1
    /\ Count(trace, "send") = Len(requests)
    /\ Count(trace, "connect") <= 1
    /\ (call # None /\ call[1].op = "get_config" /\ ~was_connected
            /\ connect_error = None)
           => trace = <<"connect", "send">>

C3_Witness ==
    /\ call # None
    /\ call[1].op = "get_config"
    /\ m = NoSession
    /\ ~was_connected
    /\ trace = <<"connect", "send">>
    /\ result.raised # None

\* C4: when _connect() raises inside the guard, the call raises that same
\* exception, _connect() was invoked once and no request was built or sent.
C4_ConnectFailurePropagates ==
    connect_error # None =>
        /\ result = [returned |-> None, raised |-> connect_error]
        /\ trace = <<"connect">>
        /\ requests = <<>>
        /\ ~_connected

C4_Witness ==
    /\ call # None
    /\ connect_error # None
    /\ RaisedType("ConnectionError")
    /\ result.raised[1].value = "timeout"

C6_Original ==
    Rejected => result = [returned |-> None, raised |-> answers[1].raised]

\* C6, amended: whenever the peer rejects the request the call raises, never
\* returns; every operation but rpc() raises the RPCError itself, with the
\* peer's error element; rpc() raises a generic Exception whose message is
\* the serialised error element, from which that element can be read back.
C6_RejectionSurfaces ==
    Rejected =>
        /\ result.returned = None
        /\ call[1].op # "rpc" =>
               result = [returned |-> None, raised |-> answers[1].raised]
        /\ call[1].op = "rpc" =>
               /\ RaisedType("Exception")
               /\ result.raised[1].value = to_xml(answers[1].raised[1].value)
               /\ \A e \in ErrorElements :
                      to_xml(e) = result.raised[1].value =>
                          e = answers[1].raised[1].value

C6_Witness ==
    /\ Rejected
    /\ call[1].op = "rpc"
    /\ RaisedType("Exception")

\* The profile the most recent get_device_operations call returned.
Computed == profiles # <<>>

Profile == profiles[Len(profiles)].operations

\* Whether a fragment occurs in at least one of the advertised strings.
Advertised(fragment) ==
    \E i \in DOMAIN server_caps : contains(server_caps[i], fragment)

\* C7: lock_datastore is the subsequence of [running, candidate, startup],
\* in that order and without duplicates, of the datastores whose flag
\* (supports_writable_running, supports_commit, supports_startup) is true.
C7_LockDatastore ==
    Computed =>
        Profile.lock_datastore =
            SelectSeq(<<"running", "candidate", "startup">>,
                      LAMBDA d :
                          \/ d = "running" /\ Profile.supports_writable_running
                          \/ d = "candidate" /\ Profile.supports_commit
                          \/ d = "startup" /\ Profile.supports_startup)

C7_Witness ==
    /\ Computed
    /\ Profile.lock_datastore = <<"running", "candidate">>
    /\ ~Profile.supports_startup

\* C8: supports_lock is true exactly when lock_datastore is not empty, which
\* is exactly when one of supports_writable_running, supports_commit and
\* supports_startup is true.
C8_SupportsLock ==
    Computed =>
        /\ Profile.supports_lock = (Len(Profile.lock_datastore) > 0)
        /\ Profile.supports_lock =
               (\/ Profile.supports_writable_running
                \/ Profile.supports_commit
                \/ Profile.supports_startup)

C8_Witness ==
    /\ Computed
    /\ Profile.lock_datastore = <<"startup">>
    /\ Profile.supports_lock

\* C9: each flag is true exactly when its fragment is a substring of at least
\* one advertised capability string; scenario A gives commit, confirm_commit,
\* startup and writable_running with all three datastores lockable, scenario
\* B gives every flag false and nothing lockable.
C9_FlagsByFragment ==
    Computed =>
        /\ Profile.supports_commit = Advertised(frag_candidate)
        /\ Profile.supports_defaults = Advertised(frag_with_defaults)
        /\ Profile.supports_confirm_commit = Advertised(frag_confirmed_commit)
        /\ Profile.supports_startup = Advertised(frag_startup)
        /\ Profile.supports_xpath = Advertised(frag_xpath)
        /\ Profile.supports_writable_running = Advertised(frag_writable_running)
        /\ Profile.supports_validate = Advertised(frag_writable_validate)
        /\ server_caps = ScenarioA =>
               Profile = [supports_commit |-> TRUE, supports_defaults |-> FALSE,
                          supports_confirm_commit |-> TRUE, supports_startup |-> TRUE,
                          supports_xpath |-> FALSE, supports_writable_running |-> TRUE,
                          supports_validate |-> FALSE,
                          lock_datastore |-> <<"running", "candidate", "startup">>,
                          supports_lock |-> TRUE]
        /\ server_caps = ScenarioB =>
               Profile = [supports_commit |-> FALSE, supports_defaults |-> FALSE,
                          supports_confirm_commit |-> FALSE, supports_startup |-> FALSE,
                          supports_xpath |-> FALSE, supports_writable_running |-> FALSE,
                          supports_validate |-> FALSE, lock_datastore |-> <<>>,
                          supports_lock |-> FALSE]

\* Two strings that put together read ":startup" are advertised, and the
\* profile does not report the startup datastore.
C9_Witness ==
    /\ Computed
    /\ server_caps = <<cap_start, cap_up>>
    /\ ~Profile.supports_startup

C11_ProfileFrame ==
    [][profiles' # profiles =>
           /\ server_caps' = server_caps
           /\ UNCHANGED session_vars
           /\ UNCHANGED call_vars]_vars

C11_Witness ==
    /\ profiles # <<>>
    /\ ~profiles[Len(profiles)].connected
    /\ ~_connected
    /\ call = None
    /\ trace = <<>>

\* C12: put_file and fetch_file, called on the base class, raise a "not
\* implemented" error and never return normally.
C12_FileTransferNotImplemented ==
    (call # None /\ call[1].op \in {"put_file", "fetch_file"}) =>
        (result.returned = None /\ RaisedType("NotImplementedError"))

\* The most recent call is a guarded call of one of these methods whose guard
\* raised nothing.
Ran(ops) == call # None /\ call[1].op \in ops /\ connect_error = None

\* C13: every lock and unlock call whose guard raised nothing is handed to the
\* manager as its own request for the call's target, whatever the client
\* locked before, and the call ends as the manager's answer says: a rejection
\* by the device is raised as the RPC error, a reply is returned.
C13_NoLockTable ==
    Ran({"lock", "unlock"}) =>
        /\ requests = <<[method |-> call[1].op,
                         params |-> [target |-> call[1].args.target],
                         handle |-> m]>>
        /\ Len(answers) = 1
        /\ result = IF answers[1].raised = None
                    THEN Return(data_of(answers[1].resp[1]))
                    ELSE [returned |-> None, raised |-> answers[1].raised]

\* A lock on a datastore the client already holds was sent and the device's
\* lock-denied came back as the RPC error.
C13_Witness ==
    /\ Ran({"lock"})
    /\ call[1].args.target \in held
    /\ Len(requests) = 1
    /\ Rejected
    /\ result = Raise("RPCError", [tag |-> "rpc-error", error_tag |-> "lock-denied"])

\* The most recent call was entered after a transport session of the
\* connection had been severed.
AfterSever == call # None /\ call_severed

\* The most recent call is rpc() or dispatch() with text that does not parse.
Unparsable ==
    \/ MalformedDispatch
    \/ call # None /\ call[1].op = "rpc" /\ ~WellFormed(call[1].args.name)

\* C14 as stated: every call entered after the transport session was severed
\* raises a connection error: the error of the guard's connect, or the
\* transport's error on the send.
C14_Original ==
    AfterSever => (RaisedType("ConnectionError") \/ RaisedType("TransportError"))

\* C14, amended: no call entered after the transport session was severed
\* returns; it raises the exception of the guard's connect when that failed,
\* otherwise the parse error when it is rpc() or dispatch() with text that does
\* not parse, and otherwise the transport's error on the one request it sent
\* over the client's handle.
C14_SeveredCallsFail ==
    AfterSever =>
        /\ result.returned = None
        /\ connect_error # None => (result.raised = connect_error /\ requests = <<>>)
        /\ (connect_error = None /\ Unparsable) =>
               (RaisedType("XMLSyntaxError") /\ requests = <<>>)
        /\ (connect_error = None /\ ~Unparsable) =>
               /\ Len(requests) = 1
               /\ result = Raise("TransportError", m)

\* After the session the client was constructed on was closed, the guard
\* reconnected, the request went out with the flag set and the transport
\* raised.
C14_Witness ==
    /\ AfterSever
    /\ m # NoSession
    /\ ~was_connected
    /\ trace = <<"connect", "send">>
    /\ sent_connected = <<TRUE>>
    /\ RaisedType("TransportError")

\* C15: a commit call whose guard raised nothing hands the manager exactly one
\* commit request carrying the call's own confirmed, timeout and persist,
\* whether or not a confirmed commit of the session is outstanding:
\* commit(True, 120, 'tok1') carries confirmed, 120 and 'tok1', and a commit()
\* without arguments carries confirmed=False, no timeout and no persist.
C15_CommitStateless ==
    Ran({"commit"}) =>
        /\ requests = <<[method |-> "commit",
                         params |-> [confirmed |-> call[1].args.confirmed,
                                     timeout |-> call[1].args.timeout,
                                     persist |-> call[1].args.persist],
                         handle |-> m]>>
        /\ call[1].args = [confirmed |-> TRUE, timeout |-> Some(120),
                           persist |-> Some("tok1")] =>
               requests[1].params = [confirmed |-> TRUE, timeout |-> Some(120),
                                     persist |-> Some("tok1")]
        /\ call[1].args = [confirmed |-> FALSE, timeout |-> None, persist |-> None] =>
               requests[1].params = [confirmed |-> FALSE, timeout |-> None,
                                     persist |-> None]

\* While a confirmed commit is outstanding (the device rejected the request, so
\* it still is), a commit() without arguments went out as a plain commit.
C15_Witness ==
    /\ Ran({"commit"})
    /\ confirming
    /\ call[1].args = [confirmed |-> FALSE, timeout |-> None, persist |-> None]
    /\ Len(requests) = 1
    /\ requests[1].params.confirmed = FALSE
    /\ Rejected

\* C16: a get_config or get call whose guard raised nothing sends one request;
\* when the filter it was given is a list, the request carries a tuple of the
\* same length with the same element at every position; any other filter
\* (None, a tuple) is carried as it was given.
C16_FilterNormalised ==
    Ran({"get_config", "get"}) =>
        /\ Len(requests) = 1
        /\ LET given == call[1].args.filter
               sent == requests[1].params.filter
           IN  IF given # None /\ given[1].type = "list"
               THEN /\ sent # None
                    /\ sent[1].type = "tuple"
                    /\ Len(sent[1].items) = Len(given[1].items)
                    /\ \A i \in 1 .. Len(given[1].items) :
                           sent[1].items[i] = given[1].items[i]
               ELSE sent = given

\* get_config was called with a list of two different elements and the
\* request that went out carries them as a tuple; the device replied.
C16_Witness ==
    /\ Ran({"get_config"})
    /\ call[1].args.filter # None
    /\ call[1].args.filter[1].type = "list"
    /\ call[1].args.filter[1].items[1] # call[1].args.filter[1].items[2]
    /\ Len(requests) = 1
    /\ requests[1].params.filter[1].type = "tuple"
    /\ result.returned # None

\* C17: whatever capabilities the server advertised, a call whose guard raised
\* nothing and whose text parses hands the manager exactly one request, of the
\* method called; the call fails only when the manager raised on that request,
\* and every operation but rpc() then raises what the manager raised.
C17_NeverBlocked ==
    (call # None /\ connect_error = None /\ ~Unparsable) =>
        /\ Len(requests) = 1
        /\ requests[1].method = call[1].op
        /\ result.raised # None => answers[1].raised # None
        /\ (result.raised # None /\ call[1].op # "rpc") =>
               result.raised = answers[1].raised

\* A commit on a session whose capabilities advertise no candidate datastore
\* went out, and the device's operation-not-supported came back as the error.
C17_Witness ==
    /\ Ran({"commit"})
    /\ ~get_device_operations(server_caps).supports_commit
    /\ Len(requests) = 1
    /\ Rejected
    /\ result = Raise("RPCError", [tag |-> "rpc-error",
                                   error_tag |-> "operation-not-supported"])

\* C18: the connected flag falls only in a step that closes the connection.
\* Every other step that is not a transport failure is a call of the client,
\* and it leaves the session alone: entered connected, it changes neither the
\* flag nor the connection's handle nor the established sessions, however it
\* ends; entered disconnected, it changes them only by the guard's connect,
\* which either raises and changes nothing or sets the flag and establishes
\* the one session behind the connection's new handle. No call closes a
\* session or changes the client's own handle.
C18_SessionPersists ==
    [][/\ (_connected /\ ~_connected') => CloseSession
       /\ ~(CloseSession \/ Drop) =>
              /\ m' = m
              /\ open \subseteq open'
              /\ _connected => UNCHANGED session_vars
              /\ ~_connected =>
                     \/ connect_error' # None /\ UNCHANGED session_vars
                     \/ /\ connect_error' = None
                        /\ trace'[1] = "connect"
                        /\ _connected'
                        /\ _manager' \notin open
                        /\ open' = open \cup {_manager'}]_vars

\* Calls entered on a connected session ended in an RPC error, and in a parse
\* error, and the session is still connected and established.
C18_Witness ==
    /\ call # None
    /\ was_connected
    /\ \/ Rejected /\ result.raised # None
       \/ Unparsable /\ RaisedType("XMLSyntaxError")
    /\ _connected
    /\ _manager \in open
    /\ m = _manager
    /\ ~severed

\* C19: no step changes the client's handle, which is the one it read from the
\* connection at construction, and every request a call hands over goes over
\* that handle, also when the guard's connect in the same call gave the
\* connection another one.
C19_CapturedHandle ==
    [][/\ m' = m
       /\ \A i \in DOMAIN requests' : requests'[i].handle = m]_vars

\* A client constructed before any session was established: the guard
\* connected, the connection holds the new session's handle, and the request
\* went over the handle the client read at construction.
C19_Witness ==
    /\ m = NoSession
    /\ _manager # m
    /\ _manager \in open
    /\ _connected
    /\ ~severed
    /\ trace = <<"connect", "send">>
    /\ requests[1].handle = m
    /\ result = Raise("TransportError", m)

====
